---- MODULE Spec2Model ----
(***************************************************************************)
(* Model of the tool-calling chat orchestration of app/main.py:            *)
(* POST /chat (chat), handle_chat_with_tools, the tool registry            *)
(* (TOOL_FUNCTIONS, get_tool_schemas), the two tool handlers and the       *)
(* WeatherService data access with its database sessions (db_utils).       *)
(*                                                                         *)
(* Python values are records tagged with their type in field t:            *)
(* None is [t |-> "NoneType"], a str is [t |-> "str", v |-> "..."].        *)
(* An exception is a record [type, msg]; str(e) is StrExc(e).              *)
(***************************************************************************)
EXTENDS Integers, Sequences, FiniteSets, TLC

VARIABLES
    state,          \* position of the pass: IDLE, AWAITING_FIRST_COMPLETION,
                    \* TOOLS_REQUESTED, AWAITING_FINAL_COMPLETION, DONE, RESPONDED
    body,           \* the JSON body of the POST /chat request (a dict)
    user_message,   \* handle_chat_with_tools' parameter
    message,        \* response.choices[0].message of the first completion
    idx,            \* position of the for loop over message.tool_calls
    tool_results,   \* the list tool_results
    requests,       \* every request sent to groq_client.chat.completions.create
    events,         \* log, in order: provider calls (complete, or fault when
                    \* the call raised), loop iterations (invoke) and
                    \* executions of a registered handler (handler)
    final_content,  \* final_response.choices[0].message.content
    result,         \* the value handle_chat_with_tools returned
    http,           \* the HTTP answer of POST /chat
    orchestrated,   \* number of times chat() invoked handle_chat_with_tools
    sessions,       \* database sessions opened by WeatherService, in order
    build,          \* how the interpreter reclaims objects: refcount or tracing
    passes,         \* concurrent requests: the locals of each request's pass
    registry        \* the module-level dict TOOL_FUNCTIONS (its keys)

\* the variables of a single request
single == <<state, body, user_message, message, idx, tool_results, requests,
            events, final_content, result, http, orchestrated, sessions, build>>

\* the variables of the requests processed concurrently
shared == <<passes, registry>>

vars == <<single, shared>>

----------------------------------------------------------------------------
(* Bounds of the model *)

\* most tool-invocation requests in one provider response
MaxCalls == 2

\* number of POST /chat requests processed concurrently
NumRequests == 2

----------------------------------------------------------------------------
(* Python values *)

None == [t |-> "NoneType"]

Str(s) == [t |-> "str", v |-> s]

PyInt(n) == [t |-> "int", v |-> n]

\* bool(x) for the values that occur: None, str, list
Truthy(x) ==
    CASE x.t = "NoneType" -> FALSE
      [] x.t = "str" -> x.v # ""
      [] x.t = "list" -> Len(x.v) > 0
      [] OTHER -> TRUE

\* dict.get(key, default) on a dict modelled as a function over its keys
DictGet(d, key, default) == IF key \in DOMAIN d THEN d[key] ELSE default

EmptyDict == [k \in {} |-> None]

\* str(e): HTTPException prints "<status>: <detail>", the others their message
StrExc(e) ==
    IF e.type = "HTTPException" THEN e.status \o ": " \o e.detail ELSE e.msg

HTTPException(status, detail) ==
    [type |-> "HTTPException", status |-> status, detail |-> detail, msg |-> detail]

----------------------------------------------------------------------------
(* Environment: request bodies, provider replies, database content *)

\* bodies of POST /chat: no message key, null, empty, and a non-empty text
Bodies ==
    {EmptyDict} \cup
    {[message |-> m] : m \in {None, Str(""),
                              Str("What's the weather on 2024-01-01?")}}

\* messages of the faults the provider client raises
ProviderFaults == {"Connection error.", "Rate limit reached"}

\* reply texts of the provider; None is an absent content
Contents == {None, Str("It is sunny.")}

\* opaque call identifiers; the provider gives the requests of one response
\* distinct identifiers
CallIds == {"call_" \o ToString(i) : i \in 1..MaxCalls}

\* tool names the model may request; send_email is not registered
ToolNames == {"get_weather_data", "get_weather_data_by_date", "send_email"}

\* argument strings of a request; the last one is not valid JSON
ArgStrings == {"{}", "{\"date\": \"2024-01-01\"}", "{\"date\": \"1999-12-31\"}",
               "{\"date\": "}

\* the rows of table weather, joined with their location
WeatherTable ==
    << [id |-> 1, date |-> "2024-01-01", temp_max |-> "30.0", temp_min |-> "24.0",
        precipitation |-> "0.0", location_id |-> PyInt(1),
        location |-> [id |-> 1, name |-> "Colombo",
                      geom_wkt |-> "POINT (79.8612 6.9271)"]],
       [id |-> 2, date |-> "2024-01-02", temp_max |-> "31.5", temp_min |-> "25.0",
        precipitation |-> "2.4", location_id |-> None, location |-> None] >>

----------------------------------------------------------------------------
(* json.loads and json.dumps on the values that occur *)

JSONDecodeError(msg) == [type |-> "JSONDecodeError", msg |-> msg]

TypeError(msg) == [type |-> "TypeError", msg |-> msg]

Return(v) == [raised |-> FALSE, value |-> v]

Raise(e) == [raised |-> TRUE, exc |-> e]

\* json.loads(tool_call.function.arguments): the dict the string denotes, or
\* JSONDecodeError for a string that is not JSON
JsonLoads(s) ==
    CASE s = "{}" -> Return(EmptyDict)
      [] s = "{\"date\": \"2024-01-01\"}" -> Return([date |-> "2024-01-01"])
      [] s = "{\"date\": \"1999-12-31\"}" -> Return([date |-> "1999-12-31"])
      [] OTHER ->
           Raise(JSONDecodeError("Expecting value: line 1 column 10 (char 9)"))

DumpStr(s) == "\"" \o s \o "\""

DumpOptInt(x) == IF x = None THEN "null" ELSE ToString(x.v)

DumpLocation(l) ==
    IF l = None THEN "null"
    ELSE "{\"id\": " \o ToString(l.id) \o ", \"name\": " \o DumpStr(l.name)
         \o ", \"geom_wkt\": " \o DumpStr(l.geom_wkt) \o "}"

DumpWeather(d) ==
    "{\"id\": " \o ToString(d.id) \o ", \"date\": " \o DumpStr(d.date)
    \o ", \"temp_max\": " \o d.temp_max \o ", \"temp_min\": " \o d.temp_min
    \o ", \"precipitation\": " \o d.precipitation
    \o ", \"location_id\": " \o DumpOptInt(d.location_id)
    \o ", \"location\": " \o DumpLocation(d.location) \o "}"

RECURSIVE DumpItems(_)
DumpItems(seq) ==
    IF Len(seq) = 0 THEN ""
    ELSE IF Len(seq) = 1 THEN DumpWeather(seq[1])
    ELSE DumpWeather(seq[1]) \o ", " \o DumpItems(Tail(seq))

\* json.dumps(content, default=str)
JsonDumps(x) ==
    CASE x.t = "NoneType" -> "null"
      [] x.t = "str" -> DumpStr(x.v)
      [] x.t = "dict" -> DumpWeather(x.v)
      [] x.t = "list" -> "[" \o DumpItems(x.v) \o "]"

----------------------------------------------------------------------------
(* db_utils: sessions and queries *)

\* SessionLocal() inside get_db, up to the yield: an open session owned by a
\* generator suspended in its try block
SessionLocal == [status |-> "open", generator |-> "suspended"]

\* the finally clause of get_db: db.close()
GetDbFinally(s) == [s EXCEPT !.status = "closed", !.generator = "finalized"]

\* db_utils.get_db().__next__(): the generator is a temporary that nothing
\* references once __next__ has returned.  A reference-counting build
\* finalizes it at once (finalizedAtOnce), which runs the finally clause
\* before the caller ever uses the session; another build leaves it to the
\* garbage collector.
GetDbNext(finalizedAtOnce) ==
    IF finalizedAtOnce THEN GetDbFinally(SessionLocal) ELSE SessionLocal

\* db.query(...) on a session: the session begins a transaction and holds a
\* connection, also when close() was called on it before
Query(s) == [s EXCEPT !.status = "open"]

Min(a, b) == IF a < b THEN a ELSE b

\* db_utils.get_all_weather(db, skip, limit)
get_all_weather(skip, limit) ==
    SubSeq(WeatherTable, skip + 1, Min(skip + limit, Len(WeatherTable)))

\* db_utils.get_weather_by_date(db, date): the first row of that date or None
get_weather_by_date(date) ==
    IF \E i \in 1..Len(WeatherTable) : WeatherTable[i].date = date
    THEN WeatherTable[CHOOSE i \in 1..Len(WeatherTable) :
                         /\ WeatherTable[i].date = date
                         /\ \A j \in 1..(i - 1) : WeatherTable[j].date # date]
    ELSE None

\* the fault a query raises when the database cannot be reached
OperationalError == [type |-> "OperationalError", msg |-> "connection refused"]

----------------------------------------------------------------------------
(* WeatherService and the tool handlers *)

\* WeatherService.get_weather_data(skip, limit); dbFault: the query raises
WeatherService_get_weather_data(skip, limit, dbFault) ==
    IF dbFault
    THEN Raise(HTTPException("500", "Database error: " \o StrExc(OperationalError)))
    ELSE Return(get_all_weather(skip, limit))

\* WeatherService.get_weather_data_by_date(date): the 404 raised inside the
\* try block is caught by the except clause below it and raised again as 500
WeatherService_get_weather_data_by_date(date, dbFault) ==
    IF dbFault
    THEN Raise(HTTPException("500", "Database error: " \o StrExc(OperationalError)))
    ELSE IF get_weather_by_date(date) = None
    THEN Raise(HTTPException("500", "Database error: "
                   \o StrExc(HTTPException("404", "Date not found"))))
    ELSE Return(get_weather_by_date(date))

\* the dict built from one Weather row
WeatherDict(w) ==
    [id |-> w.id, date |-> w.date, temp_max |-> w.temp_max,
     temp_min |-> w.temp_min, precipitation |-> w.precipitation,
     location_id |-> w.location_id,
     location |-> IF w.location # None
                  THEN [id |-> w.location.id, name |-> w.location.name,
                        geom_wkt |-> w.location.geom_wkt]
                  ELSE None]

\* _get_weather_data(limit, offset)
get_weather_data(limit, offset, dbFault) ==
    LET weather_data == WeatherService_get_weather_data(offset, limit, dbFault)
    IN  IF weather_data.raised THEN weather_data
        ELSE Return([t |-> "list",
                     v |-> [i \in 1..Len(weather_data.value) |->
                               WeatherDict(weather_data.value[i])]])

\* _get_weather_data_by_date(date)
get_weather_data_by_date(date, dbFault) ==
    LET weather == WeatherService_get_weather_data_by_date(date, dbFault)
    IN  IF weather.raised THEN weather
        ELSE Return([t |-> "dict", v |-> WeatherDict(weather.value)])

----------------------------------------------------------------------------
(* The tool registry *)

\* get_tool_schemas(): name, properties and required parameters of each tool
get_tool_schemas ==
    << [name |-> "get_weather_data", properties |-> {"limit", "offset"},
        required |-> {}],
       [name |-> "get_weather_data_by_date", properties |-> {"date"},
        required |-> {"date"}] >>

\* the keys of TOOL_FUNCTIONS
TOOL_FUNCTIONS == {"get_weather_data", "get_weather_data_by_date"}

\* TOOL_FUNCTIONS[function_name](**function_args): binding the keyword
\* arguments raises TypeError before the handler body runs; db tells whether
\* the handler reached its data access call
CallTool(function_name, function_args, dbFault) ==
    IF function_name = "get_weather_data"
    THEN IF ~(DOMAIN function_args \subseteq {"limit", "offset"})
         THEN [out |-> Raise(TypeError(
                  "_get_weather_data() got an unexpected keyword argument 'date'")),
               db |-> FALSE]
         ELSE [out |-> get_weather_data(DictGet(function_args, "limit", 100),
                                        DictGet(function_args, "offset", 0),
                                        dbFault),
               db |-> TRUE]
    ELSE IF ~(DOMAIN function_args \subseteq {"date"})
         THEN [out |-> Raise(TypeError(
                  "_get_weather_data_by_date() got an unexpected keyword argument")),
               db |-> FALSE]
         ELSE IF "date" \notin DOMAIN function_args
         THEN [out |-> Raise(TypeError(
                  "_get_weather_data_by_date() missing 1 required positional argument: 'date'")),
               db |-> FALSE]
         ELSE [out |-> get_weather_data_by_date(function_args["date"], dbFault),
               db |-> TRUE]

----------------------------------------------------------------------------
(* The provider's replies *)

ToolCall == [id : CallIds, name : ToolNames, arguments : ArgStrings]

\* the lists message.tool_calls can be: up to MaxCalls requests with
\* pairwise distinct identifiers
ToolCallLists ==
    {s \in UNION {[1..n -> ToolCall] : n \in 0..MaxCalls} :
        \A i, j \in DOMAIN s : i # j => s[i].id # s[j].id}

\* response.choices[0].message of the first completion: tool_calls is None or
\* a list
FirstMessages ==
    {[content |-> c, tool_calls |-> None] : c \in Contents} \cup
    {[content |-> c, tool_calls |-> [t |-> "list", v |-> s]] :
        c \in Contents, s \in ToolCallLists}

Unset == [t |-> "unset"]

----------------------------------------------------------------------------
(* handle_chat_with_tools *)

SystemPromptFirst ==
    "You are a helpful weather assistant. You can help users find weather information. When users ask about weather data, use the available tools to get the information. Always provide helpful and informative responses."

SystemPromptFinal ==
    "You are a helpful weather assistant. Provide clear, natural responses based on the tool results. Format the weather information in a user-friendly way."

\* the request of the initial Groq call
FirstRequest(um) ==
    [messages |-> << [role |-> "system", content |-> Str(SystemPromptFirst)],
                     [role |-> "user", content |-> um] >>,
     tools |-> [t |-> "list", v |-> get_tool_schemas],
     tool_choice |-> Str("auto")]

\* an except clause that returns a fixed text without the fault's message
ApologyWithoutMessage(e) ==
    Str("I encountered an error while processing your request. Please try again.")

\* the except clause of handle_chat_with_tools: the text returned for fault e
Apology(e) ==
    Str("I encountered an error while processing your request: " \o StrExc(e)
        \o ". Please try again or contact support if this continues.")

\* one entry of tool_results after a handler returned or raised
ToolResult(tool_call, out) ==
    IF out.raised
    THEN [tool_call_id |-> tool_call.id, error |-> Str(StrExc(out.exc))]
    ELSE [tool_call_id |-> tool_call.id, result |-> out.value]

\* the entry of tool_results for a name that is not in TOOL_FUNCTIONS
UnknownResult(tool_call) ==
    [tool_call_id |-> tool_call.id,
     error |-> Str("Unknown function: " \o tool_call.name)]

\* the assistant message echoing the first response
AssistantMessage(m) ==
    [role |-> "assistant",
     content |-> IF Truthy(m.content) THEN m.content ELSE Str(""),
     tool_calls |-> [i \in 1..Len(m.tool_calls.v) |->
                        [id |-> m.tool_calls.v[i].id, type |-> "function",
                         function |-> [name |-> m.tool_calls.v[i].name,
                                       arguments |-> m.tool_calls.v[i].arguments]]]]

\* a tool message built with tool_result.get("result") alone: an error entry
\* is serialized as null
ToolMessageResultOnly(tool_result) ==
    [role |-> "tool",
     tool_call_id |-> tool_result["tool_call_id"],
     content |-> Str(JsonDumps(DictGet(tool_result, "result", None)))]

\* the tool message appended for one entry of tool_results
ToolMessage(tool_result) ==
    [role |-> "tool",
     tool_call_id |-> tool_result["tool_call_id"],
     content |-> Str(JsonDumps(DictGet(tool_result, "result",
                                       DictGet(tool_result, "error", None))))]

\* a message list that carries tool messages for the successful results only
FinalMessagesSkipErrors(um, m, results) ==
    << [role |-> "system", content |-> Str(SystemPromptFinal)],
       [role |-> "user", content |-> um],
       AssistantMessage(m) >>
    \o LET ok == SelectSeq(results, LAMBDA r : "result" \in DOMAIN r)
       IN  [i \in 1..Len(ok) |-> ToolMessage(ok[i])]

\* the message list of the final call
FinalMessages(um, m, results) ==
    << [role |-> "system", content |-> Str(SystemPromptFinal)],
       [role |-> "user", content |-> um],
       AssistantMessage(m) >>
    \o [i \in 1..Len(results) |-> ToolMessage(results[i])]

\* the request of the final Groq call: no tools, no tool_choice
FinalRequest(um, m, results) ==
    [messages |-> FinalMessages(um, m, results),
     tools |-> None,
     tool_choice |-> None]

Event(kind, id, name) == [kind |-> kind, id |-> id, name |-> name]

\* the locals of a pass that has not started
IdlePass ==
    [state |-> "IDLE", user_message |-> Unset, message |-> Unset, idx |-> 0,
     tool_results |-> << >>, requests |-> << >>, result |-> Unset,
     http |-> [status |-> 0, detail |-> "", response |-> Unset]]

Init ==
    /\ passes = [r \in 1..NumRequests |-> IdlePass]
    /\ registry = TOOL_FUNCTIONS
    /\ state = "IDLE"
    /\ body = EmptyDict
    /\ user_message = Unset
    /\ message = Unset
    /\ idx = 0
    /\ tool_results = << >>
    /\ requests = << >>
    /\ events = << >>
    /\ final_content = Unset
    /\ result = Unset
    /\ http = [status |-> 0, detail |-> "", response |-> Unset]
    /\ orchestrated = 0
    /\ sessions = << >>
    /\ build \in {"refcount", "tracing"}

\* the test as "if user_message is None": an empty text passes
MessageMissingNoneOnly(um) == um = None

\* the test "if not user_message" of chat
MessageMissing(um) == ~Truthy(um)

\* chat(message): POST /chat up to the call of handle_chat_with_tools
Chat(b) ==
    /\ state = "IDLE"
    /\ UNCHANGED shared
    /\ body' = b
    /\ LET um == DictGet(b, "message", Str(""))
       IN  IF MessageMissing(um)
           THEN /\ http' = [status |-> 400, detail |-> "Message is required",
                            response |-> Unset]
                /\ state' = "RESPONDED"
                /\ UNCHANGED <<user_message, orchestrated>>
           ELSE /\ user_message' = um
                /\ orchestrated' = orchestrated + 1
                /\ state' = "AWAITING_FIRST_COMPLETION"
                /\ UNCHANGED http
    /\ UNCHANGED <<message, idx, tool_results, requests, events, final_content,
                   result, sessions, build>>

\* the test as "if message.tool_calls is not None": an empty list passes
WantsToolsNotNone(m) == m.tool_calls # None

\* the test "if message.tool_calls"
WantsTools(m) == Truthy(m.tool_calls)

\* where the pass stands when the for loop is at position i of calls
LoopState(calls, i) ==
    IF i > Len(calls) THEN "AWAITING_FINAL_COMPLETION" ELSE "TOOLS_REQUESTED"

\* the initial Groq call and the branch on message.tool_calls
FirstCompletion ==
    /\ state = "AWAITING_FIRST_COMPLETION"
    /\ UNCHANGED shared
    /\ requests' = Append(requests, FirstRequest(user_message))
    /\ \/ \E f \in ProviderFaults :
            /\ events' = Append(events, Event("fault", "", f))
            /\ result' = Apology([type |-> "APIError", msg |-> f])
            /\ state' = "DONE"
            /\ UNCHANGED <<message, idx, tool_results>>
       \/ \E m \in FirstMessages :
            /\ events' = Append(events, Event("complete", "", ""))
            /\ message' = m
            /\ IF WantsTools(m)
               THEN /\ state' = LoopState(m.tool_calls.v, 1)
                    /\ idx' = 1
                    /\ tool_results' = << >>
                    /\ UNCHANGED result
               ELSE /\ result' = m.content
                    /\ state' = "DONE"
                    /\ UNCHANGED <<idx, tool_results>>
    /\ UNCHANGED <<body, user_message, final_content, http, orchestrated,
                   sessions, build>>

\* the state after the loop body ran for message.tool_calls[idx] with entry r
\* appended to tool_results
NextIteration(r) ==
    /\ tool_results' = Append(tool_results, r)
    /\ idx' = idx + 1
    /\ state' = LoopState(message.tool_calls.v, idx + 1)
    /\ UNCHANGED result

\* one iteration of the loop over message.tool_calls
ExecuteToolCall ==
    /\ state = "TOOLS_REQUESTED"
    /\ UNCHANGED shared
    /\ LET tool_call == message.tool_calls.v[idx]
           function_args == JsonLoads(tool_call.arguments)
           invoked == Append(events, Event("invoke", tool_call.id, tool_call.name))
       IN  IF function_args.raised
           THEN /\ result' = Apology(function_args.exc)
                /\ state' = "DONE"
                /\ events' = invoked
                /\ UNCHANGED <<idx, tool_results, sessions>>
           ELSE IF tool_call.name \in TOOL_FUNCTIONS
           THEN \E dbFault \in BOOLEAN :
                  LET call == CallTool(tool_call.name, function_args.value, dbFault)
                  IN  /\ events' = Append(invoked,
                                     Event("handler", tool_call.id, tool_call.name))
                      /\ sessions' = IF call.db
                                     THEN Append(sessions,
                                                 Query(GetDbNext(build = "refcount")))
                                     ELSE sessions
                      /\ NextIteration(ToolResult(tool_call, call.out))
           ELSE /\ events' = invoked
                /\ UNCHANGED sessions
                /\ NextIteration(UnknownResult(tool_call))
    /\ UNCHANGED <<body, user_message, message, requests, final_content, http,
                   orchestrated, build>>

\* the final Groq call; result[:100] raises TypeError when the content is None
FinalCompletion ==
    /\ state = "AWAITING_FINAL_COMPLETION"
    /\ UNCHANGED shared
    /\ requests' = Append(requests, FinalRequest(user_message, message, tool_results))
    /\ \/ \E f \in ProviderFaults :
            /\ events' = Append(events, Event("fault", "", f))
            /\ result' = Apology([type |-> "APIError", msg |-> f])
            /\ UNCHANGED final_content
       \/ \E c \in Contents :
            /\ events' = Append(events, Event("complete", "", ""))
            /\ final_content' = c
            /\ result' = IF c = None
                         THEN Apology(TypeError(
                                  "'NoneType' object is not subscriptable"))
                         ELSE c
    /\ state' = "DONE"
    /\ UNCHANGED <<body, user_message, message, idx, tool_results, http,
                   orchestrated, sessions, build>>

\* chat(message): the return after handle_chat_with_tools returned
Respond ==
    /\ state = "DONE"
    /\ UNCHANGED shared
    /\ http' = [status |-> 200, detail |-> "", response |-> result]
    /\ state' = "RESPONDED"
    /\ UNCHANGED <<body, user_message, message, idx, tool_results, requests,
                   events, final_content, result, orchestrated, sessions, build>>

\* a collection of the garbage collector: every generator of get_db still
\* suspended is finalized, which runs its finally clause
GarbageCollect ==
    /\ \E i \in 1..Len(sessions) : sessions[i].generator = "suspended"
    /\ UNCHANGED shared
    /\ sessions' = [i \in 1..Len(sessions) |->
                      IF sessions[i].generator = "suspended"
                      THEN GetDbFinally(sessions[i]) ELSE sessions[i]]
    /\ UNCHANGED <<state, body, user_message, message, idx, tool_results,
                   requests, events, final_content, result, http, orchestrated,
                   build>>

Next ==
    \/ \E b \in Bodies : Chat(b)
    \/ FirstCompletion
    \/ ExecuteToolCall
    \/ FinalCompletion
    \/ Respond
    \/ GarbageCollect

Spec == Init /\ [][Next]_vars

----------------------------------------------------------------------------
(* Several POST /chat requests processed concurrently.  Every variable of   *)
(* handle_chat_with_tools is a local of its call, so each request r has its *)
(* own copy in passes[r]; TOOL_FUNCTIONS is the one module-level object the *)
(* passes read.  The steps of different requests interleave freely.         *)

\* the text request r sends
UserText(r) == "Request " \o ToString(r) \o ": what is the weather?"

\* the identifier the provider gives the i-th request of its reply to r:
\* identifiers are unique across responses
ConcId(r, i) == "call_" \o ToString(r) \o "_" \o ToString(i)

\* the argument string the provider derives from the text of request r
ConcArguments(r) ==
    CASE r = 1 -> "{\"date\": \"2024-01-01\"}"
      [] r = 2 -> "{\"date\": \"1999-12-31\"}"
      [] OTHER -> "{}"

\* a reply to request r carrying n tool-invocation requests, alternating a
\* registered and an unregistered name
ConcCalls(r, n) ==
    [i \in 1..n |->
        [id |-> ConcId(r, i),
         name |-> IF i % 2 = 1 THEN "get_weather_data_by_date" ELSE "send_email",
         arguments |-> ConcArguments(r)]]

\* the text the provider answers to a message list: it depends on the user
\* message of that list
ReplyTo(messages) == Str("Answer to: " \o messages[2].content.v)

\* the first responses the provider can give to request r
ConcFirstMessages(r) ==
    {[content |-> ReplyTo(FirstRequest(Str(UserText(r))).messages),
      tool_calls |-> None]} \cup
    {[content |-> None, tool_calls |-> [t |-> "list", v |-> ConcCalls(r, n)]] :
        n \in 1..MaxCalls}

\* tool_results as one list of the module shared by all passes
SharedResults(r) ==
    LET RECURSIVE All(_)
        All(q) == IF q > NumRequests THEN << >>
                  ELSE passes[q].tool_results \o All(q + 1)
    IN  All(1)

\* tool_results of the pass of request r: a local of handle_chat_with_tools
PassResults(r) == passes[r].tool_results

\* chat(message) of request r up to the call of handle_chat_with_tools
ConcChat(r) ==
    /\ passes[r].state = "IDLE"
    /\ LET um == DictGet([message |-> Str(UserText(r))], "message", Str(""))
       IN  passes' = [passes EXCEPT ![r] =
              IF MessageMissing(um)
              THEN [@ EXCEPT !.state = "RESPONDED",
                             !.http = [status |-> 400,
                                       detail |-> "Message is required",
                                       response |-> Unset]]
              ELSE [@ EXCEPT !.state = "AWAITING_FIRST_COMPLETION",
                             !.user_message = um]]
    /\ UNCHANGED <<registry, single>>

\* the initial Groq call of request r and the branch on message.tool_calls
ConcFirstCompletion(r) ==
    /\ passes[r].state = "AWAITING_FIRST_COMPLETION"
    /\ LET sent == Append(passes[r].requests, FirstRequest(passes[r].user_message))
       IN  \/ \E f \in ProviderFaults :
                passes' = [passes EXCEPT ![r] =
                   [@ EXCEPT !.requests = sent,
                             !.result = Apology([type |-> "APIError", msg |-> f]),
                             !.state = "DONE"]]
           \/ \E m \in ConcFirstMessages(r) :
                passes' = [passes EXCEPT ![r] =
                   IF WantsTools(m)
                   THEN [@ EXCEPT !.requests = sent, !.message = m, !.idx = 1,
                                  !.tool_results = << >>,
                                  !.state = LoopState(m.tool_calls.v, 1)]
                   ELSE [@ EXCEPT !.requests = sent, !.message = m,
                                  !.result = m.content, !.state = "DONE"]]
    /\ UNCHANGED <<registry, single>>

\* one iteration of the loop over message.tool_calls of request r
ConcExecuteToolCall(r) ==
    /\ passes[r].state = "TOOLS_REQUESTED"
    /\ LET tool_call == passes[r].message.tool_calls.v[passes[r].idx]
           function_args == JsonLoads(tool_call.arguments)
           entry == IF tool_call.name \in registry
                    THEN ToolResult(tool_call,
                             CallTool(tool_call.name, function_args.value, FALSE).out)
                    ELSE UnknownResult(tool_call)
       IN  passes' = [passes EXCEPT ![r] =
              IF function_args.raised
              THEN [@ EXCEPT !.result = Apology(function_args.exc),
                             !.state = "DONE"]
              ELSE [@ EXCEPT !.tool_results = Append(@, entry),
                             !.idx = @ + 1,
                             !.state = LoopState(passes[r].message.tool_calls.v,
                                                 passes[r].idx + 1)]]
    /\ UNCHANGED <<registry, single>>

\* the final Groq call of request r
ConcFinalCompletion(r) ==
    /\ passes[r].state = "AWAITING_FINAL_COMPLETION"
    /\ LET request == FinalRequest(passes[r].user_message, passes[r].message,
                                   PassResults(r))
           sent == Append(passes[r].requests, request)
       IN  \/ \E f \in ProviderFaults :
                passes' = [passes EXCEPT ![r] =
                   [@ EXCEPT !.requests = sent,
                             !.result = Apology([type |-> "APIError", msg |-> f]),
                             !.state = "DONE"]]
           \/ passes' = [passes EXCEPT ![r] =
                   [@ EXCEPT !.requests = sent,
                             !.result = ReplyTo(request.messages),
                             !.state = "DONE"]]
    /\ UNCHANGED <<registry, single>>

\* chat(message) of request r: the return after its pass returned
ConcRespond(r) ==
    /\ passes[r].state = "DONE"
    /\ passes' = [passes EXCEPT ![r] =
          [@ EXCEPT !.http = [status |-> 200, detail |-> "",
                              response |-> passes[r].result],
                    !.state = "RESPONDED"]]
    /\ UNCHANGED <<registry, single>>

InitConcurrent == Init /\ build = "refcount"

NextConcurrent ==
    \E r \in 1..NumRequests :
        \/ ConcChat(r)
        \/ ConcFirstCompletion(r)
        \/ ConcExecuteToolCall(r)
        \/ ConcFinalCompletion(r)
        \/ ConcRespond(r)

SpecConcurrent == InitConcurrent /\ [][NextConcurrent]_vars

----------------------------------------------------------------------------
(* Properties *)

\* the pass is over: handle_chat_with_tools has returned
Returned == state \in {"DONE", "RESPONDED"}

\* the first completion returned a message
FirstReplied == message # Unset

\* the requests carried by the first response, none when tool_calls is None
RequestedCalls ==
    IF FirstReplied /\ message.tool_calls # None THEN message.tool_calls.v ELSE << >>

\* positions of the provider calls in the log
ProviderEvents == {i \in DOMAIN events : events[i].kind \in {"complete", "fault"}}

\* positions of the log where a registered handler was executed
HandlerEvents == {i \in DOMAIN events : events[i].kind = "handler"}

\* C1: for every user message, every first and second provider response
\* (a null reply content included) and every outcome of the tool handlers,
\* the value handle_chat_with_tools returns is a text string.
C1_ReturnsText == Returned /\ orchestrated > 0 => result.t = "str"

\* C2: when the provider client raises on the first or on the second
\* completion call, nothing runs after the failing call (no handler, no
\* provider call), the answer is the apology text embedding the fault's
\* message, and POST /chat answers 200 with that text in response.
C2_ProviderFaultAborts ==
    /\ Cardinality(ProviderEvents) = Len(requests)
    /\ \A i \in DOMAIN events :
         events[i].kind = "fault" =>
           /\ i = Len(events)
           /\ Returned
           /\ result = Str("I encountered an error while processing your request: "
                           \o events[i].name
                           \o ". Please try again or contact support if this continues.")
           /\ state = "RESPONDED" => http.status = 200 /\ http.response = result

\* a pass whose second completion call raised after a handler had run, answered
C2_Witness ==
    /\ state = "RESPONDED"
    /\ Len(events) > 2
    /\ events[Len(events)].kind = "fault"
    /\ HandlerEvents # {}
    /\ http.status = 200

\* the body has no message field, or an empty one
C3_EmptyMessage ==
    \/ "message" \notin DOMAIN body
    \/ body["message"] = None
    \/ body["message"] = Str("")

\* C3: POST /chat with a missing or empty message answers 400 and neither the
\* orchestrator, the provider nor a tool is invoked; with a non-empty message
\* the orchestrator is invoked exactly once and the answer is 200 with
\* response equal to the orchestrator's final answer.
C3_ChatValidation ==
    /\ state # "IDLE" /\ C3_EmptyMessage =>
         /\ state = "RESPONDED" /\ http.status = 400
         /\ orchestrated = 0
         /\ requests = << >> /\ events = << >> /\ sessions = << >>
    /\ state # "IDLE" /\ ~C3_EmptyMessage =>
         /\ orchestrated = 1
         /\ http.status # 400
         /\ state = "RESPONDED" => http.status = 200 /\ http.response = result

\* a request with an empty message field, answered
C3_Witness ==
    /\ state = "RESPONDED"
    /\ body = [message |-> Str("")]
    /\ http.status = 400

\* C4: when the first response carries no tool-invocation requests, the
\* provider is called exactly once, no handler is executed and the output is
\* the first call's reply text verbatim.
C4_NoToolsDirectReply ==
    Returned /\ FirstReplied /\ Len(RequestedCalls) = 0 =>
        /\ Len(requests) = 1
        /\ \A i \in DOMAIN events : events[i].kind \notin {"invoke", "handler"}
        /\ tool_results = << >>
        /\ sessions = << >>
        /\ result = message.content

\* a pass whose first response carried an empty request list and a text
C4_Witness ==
    /\ Returned
    /\ FirstReplied
    /\ message.tool_calls = [t |-> "list", v |-> << >>]
    /\ result = Str("It is sunny.")

\* C5: the message list of the second provider call holds exactly one tool
\* message per request of the first response, in request order, right after
\* the one assistant message, and each tool message's call identifier matches
\* exactly one request carried by that assistant message.
C5_ToolMessagesPaired ==
    Len(requests) = 2 =>
        LET msgs == requests[2].messages
            A == {i \in DOMAIN msgs : msgs[i].role = "assistant"}
            T == {i \in DOMAIN msgs : msgs[i].role = "tool"}
        IN  /\ Cardinality(A) = 1
            /\ Cardinality(T) = Len(RequestedCalls)
            /\ \A a \in A :
                 /\ T = (a + 1)..Len(msgs)
                 /\ Len(msgs[a].tool_calls) = Len(RequestedCalls)
                 /\ \A k \in 1..Len(RequestedCalls) :
                      /\ msgs[a].tool_calls[k].id = RequestedCalls[k].id
                      /\ a + k \in T
                      /\ msgs[a + k].tool_call_id = RequestedCalls[k].id
                 /\ \A i \in T :
                      Cardinality({k \in DOMAIN msgs[a].tool_calls :
                          msgs[a].tool_calls[k].id = msgs[i].tool_call_id}) = 1

\* a second call sent after one invocation failed and the next one succeeded
C5_Witness ==
    /\ Len(requests) = 2
    /\ Len(tool_results) = 2
    /\ "error" \in DOMAIN tool_results[1]
    /\ "result" \in DOMAIN tool_results[2]

\* the argument string of request k is not valid JSON
MalformedArguments(k) ==
    RequestedCalls[k].arguments \notin
        {"{}", "{\"date\": \"2024-01-01\"}", "{\"date\": \"1999-12-31\"}"}

\* the identifiers of the loop iterations begun, in order
RECURSIVE InvokedIds(_)
InvokedIds(log) ==
    IF Len(log) = 0 THEN << >>
    ELSE IF log[1].kind = "invoke" THEN <<log[1].id>> \o InvokedIds(Tail(log))
    ELSE InvokedIds(Tail(log))

\* every request of the first response was invoked, in request order
AllInvokedInOrder ==
    InvokedIds(events) = [k \in 1..Len(RequestedCalls) |-> RequestedCalls[k].id]

\* C6: when the first response requests several tools and the handler of one
\* of them raises, that outcome is recorded as a result carrying only the
\* error message for that call identifier, every later request of the batch
\* is still invoked in order, and the pass proceeds to the second provider
\* call.
C6_HandlerFaultIsolated ==
    \A k \in 1..Len(tool_results) :
        /\ Returned
        /\ Len(RequestedCalls) > 1
        /\ RequestedCalls[k].name \in TOOL_FUNCTIONS
        /\ "error" \in DOMAIN tool_results[k]
        => /\ DOMAIN tool_results[k] = {"tool_call_id", "error"}
           /\ tool_results[k].tool_call_id = RequestedCalls[k].id
           /\ Len(tool_results) = Len(RequestedCalls)
           /\ AllInvokedInOrder
           /\ Len(requests) = 2

\* C7: when a request carries an argument string that is not valid JSON, the
\* fault is recorded as a failed result for that call identifier, the other
\* requests of the batch are still invoked, and the second provider call is
\* still made.
C7_MalformedArgumentsIsolated ==
    \A k \in 1..Len(RequestedCalls) :
        Returned /\ MalformedArguments(k) =>
           /\ Len(tool_results) = Len(RequestedCalls)
           /\ DOMAIN tool_results[k] = {"tool_call_id", "error"}
           /\ tool_results[k].tool_call_id = RequestedCalls[k].id
           /\ AllInvokedInOrder
           /\ Len(requests) = 2

\* C8: when a requested tool name is not a key of TOOL_FUNCTIONS, no handler
\* is executed for that request, its tool message content is a non-empty
\* error string, the other requests are still processed, and the pass
\* completes with the second provider call's reply as the final answer.
C8_UnknownToolIsLocal ==
    \A k \in 1..Len(RequestedCalls) :
        Returned /\ RequestedCalls[k].name \notin TOOL_FUNCTIONS =>
           /\ \A i \in HandlerEvents : events[i].id # RequestedCalls[k].id
           /\ AllInvokedInOrder
           /\ Len(requests) = 2
           /\ LET msg == requests[2].messages[3 + k]
              IN  /\ msg.role = "tool"
                  /\ msg.tool_call_id = RequestedCalls[k].id
                  /\ msg.content.t = "str"
                  /\ msg.content.v # ""
                  /\ "error" \in DOMAIN tool_results[k]
           /\ final_content # Unset => result = final_content

\* the steps of a pass the state machine lists
C9_ListedSteps ==
    { <<"AWAITING_FIRST_COMPLETION", "DONE">>,
      <<"AWAITING_FIRST_COMPLETION", "TOOLS_REQUESTED">>,
      <<"TOOLS_REQUESTED", "AWAITING_FINAL_COMPLETION">>,
      <<"AWAITING_FINAL_COMPLETION", "DONE">> }

\* the first call offers the full tool list, the second call offers no tools,
\* there are at most two calls, and handlers run only between the two calls
C9_CallsShape ==
    /\ Len(requests) <= 2
    /\ Len(requests) >= 1 =>
         requests[1].tools = [t |-> "list", v |-> get_tool_schemas]
    /\ Len(requests) = 2 => requests[2].tools = None
    /\ \A i \in DOMAIN events :
         events[i].kind \in {"invoke", "handler"} =>
           /\ \E j \in ProviderEvents : j < i
           /\ \A j \in ProviderEvents : j > i => j = Len(events)
    /\ Returned /\ final_content # Unset => result = final_content

\* C9: every pass ends in DONE after at most two provider calls, following
\* only AWAITING_FIRST_COMPLETION -> DONE or AWAITING_FIRST_COMPLETION ->
\* TOOLS_REQUESTED -> AWAITING_FINAL_COMPLETION -> DONE; the first call offers
\* the full tool list, the second none, handlers run only between the two
\* calls, and the second call's reply is returned as the final answer.
C9_TwoPassProtocol ==
    /\ [](C9_CallsShape)
    /\ [][state \notin {"IDLE", "DONE", "RESPONDED"} /\ state' # state
            => <<state, state'>> \in C9_ListedSteps]_vars

\* C10: every data access call made by a tool has released (closed) the
\* session it acquired when the call has returned or raised; no session
\* opened by a tool invocation is left open.
C10_SessionsReleased ==
    \A i \in DOMAIN sessions : sessions[i].status = "closed"

\* the content a tool message must carry for entry r of tool_results: the
\* serialized payload of a success, the serialized message of a failure
C11_ExpectedContent(r) ==
    IF "result" \in DOMAIN r THEN Str(JsonDumps(r["result"]))
    ELSE Str("\"" \o r["error"].v \o "\"")

\* C11: the message list of the second provider call is one system message,
\* one user message carrying the original user message unchanged, one
\* assistant message carrying the first response's requests in the same order
\* with the same id, name and argument string, then the tool messages; each
\* tool message's content is the serialization of the handler's payload when
\* the invocation succeeded and of the error message when it failed, never
\* both.
C11_FinalMessageList ==
    Len(requests) = 2 =>
        LET msgs == requests[2].messages
            n == Len(RequestedCalls)
        IN  /\ Len(msgs) = 3 + n
            /\ Len(tool_results) = n
            /\ msgs[1].role = "system"
            /\ msgs[2] = [role |-> "user", content |-> body["message"]]
            /\ msgs[3].role = "assistant"
            /\ msgs[3].tool_calls =
                 [k \in 1..n |->
                    [id |-> RequestedCalls[k].id, type |-> "function",
                     function |-> [name |-> RequestedCalls[k].name,
                                   arguments |-> RequestedCalls[k].arguments]]]
            /\ \A k \in 1..n :
                 /\ msgs[3 + k].role = "tool"
                 /\ msgs[3 + k].tool_call_id = RequestedCalls[k].id
                 /\ \/ DOMAIN tool_results[k] = {"tool_call_id", "result"}
                    \/ DOMAIN tool_results[k] = {"tool_call_id", "error"}
                 /\ msgs[3 + k].content = C11_ExpectedContent(tool_results[k])
                 /\ RequestedCalls[k].name \notin TOOL_FUNCTIONS =>
                      msgs[3 + k].content =
                        Str("\"Unknown function: " \o RequestedCalls[k].name \o "\"")
                 /\ /\ RequestedCalls[k].name = "get_weather_data_by_date"
                    /\ RequestedCalls[k].arguments = "{\"date\": \"2024-01-01\"}"
                    /\ "result" \in DOMAIN tool_results[k]
                    => msgs[3 + k].content = Str(
                         "{\"id\": 1, \"date\": \"2024-01-01\", \"temp_max\": 30.0, "
                         \o "\"temp_min\": 24.0, \"precipitation\": 0.0, "
                         \o "\"location_id\": 1, \"location\": {\"id\": 1, "
                         \o "\"name\": \"Colombo\", "
                         \o "\"geom_wkt\": \"POINT (79.8612 6.9271)\"}}")

\* a second call sent after a lookup by date succeeded and the next
\* invocation failed
C11_Witness ==
    /\ Len(requests) = 2
    /\ Len(tool_results) = 2
    /\ RequestedCalls[1].name = "get_weather_data_by_date"
    /\ "result" \in DOMAIN tool_results[1]
    /\ "error" \in DOMAIN tool_results[2]

\* the call identifiers the provider gave to requests other than r
C12_OtherIds(r) ==
    {ConcId(q, i) : q \in (1..NumRequests) \ {r}, i \in 1..MaxCalls}

\* the entry request r's own k-th tool-invocation request must produce
C12_OwnEntry(r, k) ==
    LET tool_call == passes[r].message.tool_calls.v[k]
    IN  IF tool_call.name \in {"get_weather_data", "get_weather_data_by_date"}
        THEN ToolResult(tool_call,
                 CallTool(tool_call.name, JsonLoads(tool_call.arguments).value,
                          FALSE).out)
        ELSE UnknownResult(tool_call)

\* the answers a pass of request r can return: the provider's answer to r's
\* own message, or the apology for a provider fault
C12_OwnAnswers(r) ==
    {Str("Answer to: " \o UserText(r))} \cup
    {Str("I encountered an error while processing your request: " \o f
         \o ". Please try again or contact support if this continues.") :
        f \in ProviderFaults}

\* C12: when several /chat requests are processed concurrently with any
\* interleaving of their steps, each pass uses only its own message and its
\* own tool results: the second-call message list and the final answer of one
\* request hold no call identifier, tool result or user message of another
\* request, and the tool registry (TOOL_FUNCTIONS and the tool schema list)
\* is the same in every reachable state.
C12_PassesIsolated ==
    /\ registry = {"get_weather_data", "get_weather_data_by_date"}
    /\ \A r \in 1..NumRequests :
         LET p == passes[r]
         IN  /\ \A i \in DOMAIN p.requests :
                  LET msgs == p.requests[i].messages
                  IN  /\ i = 1 => p.requests[i].tools =
                                    [t |-> "list", v |-> get_tool_schemas]
                      /\ msgs[2] = [role |-> "user", content |-> Str(UserText(r))]
                      /\ \A j \in DOMAIN msgs :
                           /\ msgs[j].role = "tool" =>
                                msgs[j].tool_call_id \notin C12_OtherIds(r)
                           /\ msgs[j].role = "assistant" =>
                                \A k \in DOMAIN msgs[j].tool_calls :
                                   msgs[j].tool_calls[k].id \notin C12_OtherIds(r)
             /\ Len(p.requests) = 2 =>
                  LET msgs == p.requests[2].messages
                      n == Len(p.message.tool_calls.v)
                  IN  /\ Len(msgs) = 3 + n
                      /\ \A k \in 1..n :
                           /\ msgs[3 + k].role = "tool"
                           /\ msgs[3 + k].tool_call_id = ConcId(r, k)
                           /\ msgs[3 + k].content =
                                Str(JsonDumps(DictGet(C12_OwnEntry(r, k), "result",
                                        DictGet(C12_OwnEntry(r, k), "error", None))))
             /\ p.state \in {"DONE", "RESPONDED"} => p.result \in C12_OwnAnswers(r)
             /\ p.state = "RESPONDED" =>
                  p.http.status = 200 /\ p.http.response = p.result

\* request 1 has been answered after its second call while request 2, which
\* already holds a tool result, is still in its loop or about to make its
\* second call
C12_Witness ==
    /\ passes[1].state = "RESPONDED"
    /\ Len(passes[1].requests) = 2
    /\ Len(passes[1].tool_results) > 0
    /\ passes[2].state \in {"TOOLS_REQUESTED", "AWAITING_FINAL_COMPLETION"}
    /\ Len(passes[2].tool_results) > 0

====
